---- MODULE Spec2Model ----
(***************************************************************************)
(* Model of make_agreem_dir_Gemini.py.                                     *)
(*                                                                         *)
(* Part 1 models the placeholder substitution engine                       *)
(* (_replace_in_paragraph, _replace_in_block, replace_placeholders) on a   *)
(* document tree whose paragraphs are sequences of runs.  A run's text is  *)
(* a sequence of one-character strings, so that offsets, slices and        *)
(* substring search are computed exactly as the Python code computes them. *)
(*                                                                         *)
(* Part 2 models the batch driver (main, process_file) against an          *)
(* abstract file system.                                                   *)
(***************************************************************************)
EXTENDS Integers, Sequences, FiniteSets

VARIABLES
    doc,           \* the document tree (containers, tables, sections); never mutated
    runs,          \* runs[p]: the run texts of paragraph p, in order
    placeholders,  \* the ordered dict: a sequence of [key, value] records
    pc,            \* "idle" | "running" | "returned"
    todo,          \* paragraphs still to be visited by the running call, in visit order
    calls,         \* number of replace_placeholders calls that have returned
    passes,        \* passes[p]: successful replacement passes made on p (saturating)
    orig,          \* runs as loaded from the template (history)
    last,          \* the most recent successful pass: paragraph, key index, runs before it
    files,         \* main: per source file, what extraction yields
    stdout,        \* main: the encoding of standard output
    template_ok,   \* main: the template file exists next to the script
    mpc,           \* main/process_file: program counter
    idx,           \* main: index of the file being processed
    folders,       \* file system: existing output folders
    docx,          \* file system: folders that hold a generated letter
    pdf_at,        \* file system: the places that hold each source PDF
    created,       \* folders created by os.makedirs in this run (history)
    processed,     \* processed[f]: times process_file was entered for f (history)
    skipped,       \* files that returned at a skip, with the file system seen on entry
    fs_entry       \* file system on entry of the current process_file (history)

evars == <<doc, runs, placeholders, pc, todo, calls, passes, orig, last>>
mvars == <<files, stdout, template_ok, mpc, idx, folders, docx, pdf_at, created,
           processed, skipped, fs_entry>>
vars == <<doc, runs, placeholders, pc, todo, calls, passes, orig, last,
          files, stdout, template_ok, mpc, idx, folders, docx, pdf_at, created,
          processed, skipped, fs_entry>>

(***************************************************************************)
(* Bounds of the model.                                                    *)
(***************************************************************************)
MaxInitLen == 3    \* longest paragraph text in a loaded template
MaxRuns == 3       \* most runs in a paragraph of a loaded template
MaxCalls == 2      \* replace_placeholders is called at most this many times
NumFiles == 2      \* source PDFs in the batch

MaxPasses == MaxInitLen + 3    \* the pass counter saturates here

Min(S) == CHOOSE x \in S : \A y \in S : x <= y
Max(S) == CHOOSE x \in S : \A y \in S : x >= y

(***************************************************************************)
(* Python string primitives on sequences of characters.                    *)
(***************************************************************************)
\* "".join(run.text for run in paragraph.runs)
RECURSIVE full_text(_)
full_text(rs) == IF rs = <<>> THEN <<>> ELSE Head(rs) \o full_text(Tail(rs))

\* str.find(key): lowest 0-based index of key in text, -1 when absent
find(text, key) ==
    LET cands == {i \in 0..(Len(text) - Len(key)) :
                      SubSeq(text, i + 1, i + Len(key)) = key}
    IN  IF cands = {} THEN -1 ELSE Min(cands)

\* s[:n] with Python's clamping and negative indices
slice_to(s, n) ==
    LET m == IF n < 0 THEN Max({Len(s) + n, 0}) ELSE Min({n, Len(s)})
    IN  SubSeq(s, 1, m)

\* s[n:] with Python's clamping and negative indices
slice_from(s, n) ==
    LET m == IF n < 0 THEN Max({Len(s) + n, 0}) ELSE Min({n, Len(s)})
    IN  SubSeq(s, m + 1, Len(s))

\* str(value): every value of the dict is already a str
str(value) == value

(***************************************************************************)
(* _replace_in_paragraph: one iteration of its while loop.                 *)
(***************************************************************************)
\* current_pos when the loop over paragraph.runs reaches run i (1-based)
current_pos(rs, i) == Len(full_text(SubSeq(rs, 1, i - 1)))

\* the overlap test with <= for <: a run that ends where the key starts is taken too
runs_to_modify_inclusive(rs, start_index, end_index) ==
    {i \in 1..Len(rs) :
        /\ start_index <= current_pos(rs, i) + Len(rs[i])
        /\ current_pos(rs, i) < end_index}

\* the runs collected in runs_to_modify, as indices into paragraph.runs
runs_to_modify(rs, start_index, end_index) ==
    {i \in 1..Len(rs) :
        /\ start_index < current_pos(rs, i) + Len(rs[i])
        /\ current_pos(rs, i) < end_index}

\* `run is first_run` (line 126) and `run is last_run` (line 128): whether the run at
\* position i of the list paragraph.runs yields at line 124 is the object at position j
\* of the list it yielded at line 110.  Paragraph.runs of python-docx is
\* `[Run(r, self) for r in self._p.r_lst]`: new Run proxies at every access, so an
\* object of one list is never an object of the other
same_object(i, j) == FALSE

\* prefix and suffix when the loop of lines 122-131 ends: the loop stops at the first run
\* that is last_run; a run that is first_run is met before it or is that run
prefix_suffix(rs, first_run, last_run, start_index, end_index) ==
    LET firsts == {i \in 1..Len(rs) : same_object(i, first_run)}
        lasts == {i \in 1..Len(rs) : same_object(i, last_run)}
        stop == IF lasts = {} THEN Len(rs) ELSE Min(lasts)
        seen == {i \in firsts : i <= stop}
    IN  [prefix |-> IF seen = {} THEN <<>>
                    ELSE slice_to(rs[Max(seen)], start_index - current_pos(rs, Max(seen))),
         suffix |-> IF lasts = {} THEN <<>>
                    ELSE slice_from(rs[stop], end_index - current_pos(rs, stop))]

\* the rewrite for a paragraph whose runs property yields the same objects at every
\* access: the loop of lines 122-131 finds first_run and last_run again
rewrite_stable(rs, key, value) ==
    LET start_index == find(full_text(rs), key)
        end_index == start_index + Len(key)
        mod == runs_to_modify(rs, start_index, end_index)
        first_run == Min(mod)
        last_run == Max(mod)
        prefix == slice_to(rs[first_run], start_index - current_pos(rs, first_run))
        suffix == slice_from(rs[last_run], end_index - current_pos(rs, last_run))
    IN  [i \in 1..Len(rs) |->
            IF i = first_run
            THEN IF first_run = last_run
                 THEN (prefix \o str(value)) \o suffix
                 ELSE prefix \o str(value)
            ELSE IF i = last_run THEN suffix
            ELSE IF i \in mod THEN <<>>
            ELSE rs[i]]

\* the rewrite of lines 119-140 for a key found at start_index
rewrite(rs, key, value) ==
    LET start_index == find(full_text(rs), key)
        end_index == start_index + Len(key)
        mod == runs_to_modify(rs, start_index, end_index)
        first_run == Min(mod)
        last_run == Max(mod)
        ps == prefix_suffix(rs, first_run, last_run, start_index, end_index)
    IN  [i \in 1..Len(rs) |->
            IF i = first_run
            THEN IF first_run = last_run
                 THEN (ps.prefix \o str(value)) \o ps.suffix
                 ELSE ps.prefix \o str(value)
            ELSE IF i = last_run THEN ps.suffix
            ELSE IF i \in mod THEN <<>>
            ELSE rs[i]]

\* whether the for loop replaces at dict entry k (neither `continue` is taken)
hits(rs, ph, k) ==
    LET start_index == find(full_text(rs), ph[k].key)
    IN  /\ start_index # -1
        /\ runs_to_modify(rs, start_index, start_index + Len(ph[k].key)) # {}

\* the entry chosen by smallest start offset: what the loop does not do
leftmost_key(rs, ph) ==
    LET ks == {k \in 1..Len(ph) : hits(rs, ph, k)}
        at(k) == find(full_text(rs), ph[k].key)
    IN  IF ks = {} THEN 0
        ELSE Min({k \in ks : \A j \in ks : at(k) <= at(j)})

\* the dict entry at which the for loop breaks, 0 when it runs to the end
first_key(rs, ph) ==
    LET ks == {k \in 1..Len(ph) : hits(rs, ph, k)}
    IN  IF ks = {} THEN 0 ELSE Min(ks)

\* the value of `replaced` at line 145
replaced(rs, ph) == first_key(rs, ph) # 0

(***************************************************************************)
(* _replace_in_block and replace_placeholders: the order in which the      *)
(* paragraphs of a tree are handed to _replace_in_paragraph.  A container  *)
(* (document body, cell, header, footer) is an index into d.blocks; a      *)
(* table is a sequence of rows, a row a sequence of cells.                 *)
(***************************************************************************)
\* the cells of a sequence of rows, row by row
RECURSIVE row_cells(_)
row_cells(rows) == IF rows = <<>> THEN <<>> ELSE Head(rows) \o row_cells(Tail(rows))

\* the cells of a sequence of tables: for table / for row / for cell
RECURSIVE table_cells(_)
table_cells(tables) ==
    IF tables = <<>> THEN <<>>
    ELSE row_cells(Head(tables)) \o table_cells(Tail(tables))

\* a walker that forgets the tables of a block
replace_in_block_flat(d, block) == d.blocks[block].paragraphs

\* _replace_in_block: the block's own paragraphs, then every cell, recursively
RECURSIVE replace_in_block(_, _)
RECURSIVE replace_in_cells(_, _)
replace_in_block(d, block) ==
    d.blocks[block].paragraphs \o replace_in_cells(d, table_cells(d.blocks[block].tables))

replace_in_cells(d, cells) ==
    IF cells = <<>> THEN <<>>
    ELSE replace_in_block(d, Head(cells)) \o replace_in_cells(d, Tail(cells))

\* for section in doc.sections: header, then footer
RECURSIVE replace_in_sections(_, _)
replace_in_sections(d, sections) ==
    IF sections = <<>> THEN <<>>
    ELSE (replace_in_block(d, Head(sections).header)
            \o replace_in_block(d, Head(sections).footer))
         \o replace_in_sections(d, Tail(sections))

\* a walker that visits the headers and forgets the footers
replace_placeholders_no_footer(d) ==
    replace_in_block(d, d.body)
      \o replace_in_block(d, IF d.sections = <<>> THEN d.body ELSE d.sections[1].header)

\* replace_placeholders: the body, then every section's header and footer
replace_placeholders(d) ==
    replace_in_block(d, d.body) \o replace_in_sections(d, d.sections)

(***************************************************************************)
(* Inputs: templates and dicts.                                            *)
(***************************************************************************)
Chars == {"a", "b"}

\* all texts of length n
Texts(n) == [1..n -> Chars]

\* the ways of cutting text t into r runs (empty runs included)
Splits(t, r) ==
    IF r = 0 THEN (IF t = <<>> THEN {<<>>} ELSE {})
    ELSE {[i \in 1..r |->
              SubSeq(t, (IF i = 1 THEN 0 ELSE c[i - 1]) + 1,
                        IF i = r THEN Len(t) ELSE c[i])] :
            c \in {c \in [1..(r - 1) -> 0..Len(t)] :
                      \A i \in 1..(r - 2) : c[i] <= c[i + 1]}}

\* every paragraph a template may hold within the bounds
Paragraphs ==
    UNION {Splits(t, r) : t \in UNION {Texts(n) : n \in 0..MaxInitLen}, r \in 0..MaxRuns}

\* keys and values of the dict; "" is a legal dict key in Python
Keys == {<<>>, <<"a", "a">>, <<"b", "b">>, <<"a", "b", "b">>}
Values == {<<>>, <<"b">>, <<"a", "b", "a">>, <<"b", "b", "b">>}
Entries == [key : Keys, value : Values]

\* ordered dicts with one or two entries and distinct keys
TokenMaps ==
    {<<e>> : e \in Entries}
      \cup {m \in {<<e1, e2>> : e1 \in Entries, e2 \in Entries} : m[1].key # m[2].key}

\* a document whose only paragraph is in the body; one section, empty header and footer
SingleDoc ==
    [body |-> 1,
     sections |-> <<[header |-> 2, footer |-> 3]>>,
     blocks |-> <<[paragraphs |-> <<1>>, tables |-> <<>>],
                  [paragraphs |-> <<>>, tables |-> <<>>],
                  [paragraphs |-> <<>>, tables |-> <<>>]>>]

\* body paragraph 1 and a table; its cell (block 4) holds paragraph 2 and a table whose
\* cell (block 5) holds paragraph 3; the header holds paragraph 4; the footer holds a
\* table with no rows and a table with two rows: the first lists the cell holding
\* paragraph 5 (block 6) twice, as row.cells does for a merged cell, the second is empty
NestedDoc ==
    [body |-> 1,
     sections |-> <<[header |-> 2, footer |-> 3]>>,
     blocks |-> <<[paragraphs |-> <<1>>, tables |-> << <<<<4>>>> >>],
                  [paragraphs |-> <<4>>, tables |-> <<>>],
                  [paragraphs |-> <<>>, tables |-> << <<>>, <<<<6, 6>>, <<>>>> >>],
                  [paragraphs |-> <<2>>, tables |-> << <<<<5>>>> >>],
                  [paragraphs |-> <<3>>, tables |-> <<>>],
                  [paragraphs |-> <<5>>, tables |-> <<>>]>>]

\* paragraphs of the nested template: a token in one run, or cut across runs
NestedParagraphs ==
    {<< <<"a", "b", "b">> >>, << <<"a">>, <<>>, <<"b", "b">> >>}

ParaIds(d) ==
    UNION {{d.blocks[b].paragraphs[i] : i \in DOMAIN d.blocks[b].paragraphs} :
              b \in DOMAIN d.blocks}

NoPass == [p |-> 0, k |-> 0, old |-> <<>>]

(***************************************************************************)
(* Part 2 is idle while the engine is studied, and conversely.             *)
(***************************************************************************)
MainIdle ==
    /\ files = <<>>
    /\ stdout = "utf-8"
    /\ template_ok = FALSE
    /\ mpc = "off"
    /\ idx = 0
    /\ folders = {}
    /\ docx = {}
    /\ pdf_at = <<>>
    /\ created = {}
    /\ processed = <<>>
    /\ skipped = {}
    /\ fs_entry = <<>>

EngineStart(d, rs, ph) ==
    /\ doc = d
    /\ runs = rs
    /\ placeholders = ph
    /\ pc = "idle"
    /\ todo = <<>>
    /\ calls = 0
    /\ passes = [p \in DOMAIN rs |-> 0]
    /\ orig = rs
    /\ last = NoPass

InitSingle ==
    \E p \in Paragraphs, ph \in TokenMaps :
        EngineStart(SingleDoc, [i \in {1} |-> p], ph)

InitNested ==
    \E rs \in [ParaIds(NestedDoc) -> NestedParagraphs], ph \in TokenMaps :
        EngineStart(NestedDoc, rs, ph)

Init == (InitSingle \/ InitNested) /\ MainIdle

(***************************************************************************)
(* Engine actions.                                                         *)
(***************************************************************************)
\* replace_placeholders(doc, placeholders) is entered
Call ==
    /\ pc \in {"idle", "returned"}
    /\ calls < MaxCalls
    /\ pc' = "running"
    /\ todo' = replace_placeholders(doc)
    /\ UNCHANGED <<doc, runs, placeholders, calls, passes, orig, last>>
    /\ UNCHANGED mvars

\* one iteration of the while loop of _replace_in_paragraph that ends at `break` of
\* line 143: the for loop stops at dict entry k, whose key is replaced by its value, and
\* the while loop goes round again
Pass ==
    /\ pc = "running"
    /\ todo # <<>>
    /\ \E p \in {Head(todo)} :
       \E k \in {first_key(runs[p], placeholders)} :
           /\ k # 0
           /\ runs' = [runs EXCEPT ![p] = rewrite(runs[p], placeholders[k].key,
                                                   placeholders[k].value)]
           /\ passes' = [passes EXCEPT ![p] = Min({@ + 1, MaxPasses})]
           /\ last' = [p |-> p, k |-> k, old |-> runs[p]]
    /\ UNCHANGED <<doc, placeholders, pc, todo, calls, orig>>
    /\ UNCHANGED mvars

\* a loop that may stop after its first replacement instead of scanning again
ExitEarly ==
    /\ pc = "running"
    /\ todo # <<>>
    /\ \/ ~replaced(runs[Head(todo)], placeholders)
       \/ passes[Head(todo)] >= 1
    /\ todo' = Tail(todo)
    /\ UNCHANGED <<doc, runs, placeholders, pc, calls, passes, orig, last>>
    /\ UNCHANGED mvars

\* the iteration in which no key is replaced: `if not replaced: break`, and the walker
\* moves on to the next paragraph
Exit ==
    /\ pc = "running"
    /\ todo # <<>>
    /\ ~replaced(runs[Head(todo)], placeholders)
    /\ todo' = Tail(todo)
    /\ UNCHANGED <<doc, runs, placeholders, pc, calls, passes, orig, last>>
    /\ UNCHANGED mvars

\* replace_placeholders returns
Return ==
    /\ pc = "running"
    /\ todo = <<>>
    /\ pc' = "returned"
    /\ calls' = calls + 1
    /\ UNCHANGED <<doc, runs, placeholders, todo, passes, orig, last>>
    /\ UNCHANGED mvars

Next == Call \/ Pass \/ Exit \/ Return

Spec == Init /\ [][Next]_vars

\* the dicts of TokenMaps in which no value holds a key: find fails for every key in
\* every value
PlainMaps ==
    {m \in TokenMaps :
        \A i \in 1..Len(m), j \in 1..Len(m) : find(m[i].value, m[j].key) = -1}

\* every template of Init, with every dict of PlainMaps
InitFairSingle ==
    \E p \in Paragraphs, ph \in PlainMaps :
        EngineStart(SingleDoc, [i \in {1} |-> p], ph)

InitFairNested ==
    \E rs \in [ParaIds(NestedDoc) -> NestedParagraphs], ph \in PlainMaps :
        EngineStart(NestedDoc, rs, ph)

InitFair == (InitFairSingle \/ InitFairNested) /\ MainIdle

\* the interpreter keeps executing a running call: a step that can be taken is taken
FairSpec == InitFair /\ [][Next]_vars /\ WF_vars(Next)

(***************************************************************************)
(* Part 2: main and process_file.  A source PDF is described by what the   *)
(* extractors find in it and by the output folder its fields name; the     *)
(* file system is the set of output folders, the folders holding a letter, *)
(* and the place of every PDF.  Steps that can raise (pdfplumber.open, the  *)
(* date arithmetic, os.makedirs, Document, doc.save, shutil.move) either   *)
(* succeed or raise.  print raises UnicodeEncodeError when standard output *)
(* cannot encode the message; replace_placeholders may never return.       *)
(***************************************************************************)
FolderNames == {"F1", "F2"}

\* encodings of standard output: every message can be written, the Cyrillic text but
\* not the emoji, neither
Encodings == {"utf-8", "cp1251", "ascii"}

\* print of a message that starts with an emoji succeeds (lines 251, 256)
prints_emoji(enc) == enc = "utf-8"

\* print of an emoji message that holds the name of file f succeeds (lines 164, 264): a
\* name with surrogate escapes cannot be encoded by any encoding
prints_name(enc, f) == prints_emoji(enc) /\ f.name_ok

\* print of the Cyrillic message of line 259 succeeds
prints_cyrillic(enc) == enc \in {"utf-8", "cp1251"}

\* whether the file name can be encoded, what find_case_num_in_crop, find_amount and
\* max_date_us return (found or None), and the folder_name built from them at line 205
FileInfo ==
    [name_ok : BOOLEAN, case_num : BOOLEAN, amount : BOOLEAN, doc_date : BOOLEAN,
     out_dir : FolderNames]

EngineIdle ==
    /\ doc = SingleDoc
    /\ runs = <<>>
    /\ placeholders = <<>>
    /\ pc = "off"
    /\ todo = <<>>
    /\ calls = 0
    /\ passes = <<>>
    /\ orig = <<>>
    /\ last = NoPass

InitMain ==
    /\ EngineIdle
    /\ files \in UNION {[1..n -> FileInfo] : n \in 0..NumFiles}
    /\ stdout \in Encodings
    /\ template_ok \in BOOLEAN
    /\ mpc = "start"
    /\ idx = 0
    /\ folders \in SUBSET FolderNames
    /\ docx \in SUBSET folders
    /\ pdf_at = [f \in DOMAIN files |-> {"cwd"}]
    /\ created = {}
    /\ processed = [f \in DOMAIN files |-> 0]
    /\ skipped = {}
    /\ fs_entry = <<folders, docx, pdf_at>>

\* the list `errors` of lines 181-187 is not empty
errors(f) == ~f.case_num \/ ~f.amount \/ ~f.doc_date

\* main up to its for loop: the template must exist and some file must match; the
\* message of line 251, 256 or 259 is printed, and main ends with the exception when
\* the print raises
MainStart ==
    /\ mpc = "start"
    /\ IF ~template_ok \/ Len(files) = 0
       THEN /\ mpc' = IF prints_emoji(stdout) THEN "done" ELSE "crashed"
            /\ idx' = idx
       ELSE IF prints_cyrillic(stdout)
            THEN mpc' = "open" /\ idx' = 1
            ELSE mpc' = "crashed" /\ idx' = idx
    /\ UNCHANGED <<files, stdout, template_ok, folders, docx, pdf_at, created, processed,
                   skipped, fs_entry>>
    /\ UNCHANGED evars

\* process_file is entered and prints the message of line 164, which raises when
\* standard output cannot encode it; pdfplumber opens the PDF and extracts its text, or
\* raises
OpenPdf ==
    /\ mpc = "open"
    /\ processed' = [processed EXCEPT ![idx] = @ + 1]
    /\ fs_entry' = <<folders, docx, pdf_at>>
    /\ IF prints_name(stdout, files[idx])
       THEN \E raised \in BOOLEAN : mpc' = IF raised THEN "except" ELSE "fields"
       ELSE mpc' = "except"
    /\ UNCHANGED <<files, stdout, template_ok, idx, folders, docx, pdf_at, created, skipped>>
    /\ UNCHANGED evars

\* lines 181-194: a file with a missing required field is skipped
CheckFields ==
    /\ mpc = "fields"
    /\ IF errors(files[idx])
       THEN /\ mpc' = "next"
            /\ skipped' = skipped \cup
                   {[file |-> idx, entry |-> fs_entry, exit |-> <<folders, docx, pdf_at>>]}
       ELSE /\ mpc' = "format"
            /\ skipped' = skipped
    /\ UNCHANGED <<files, stdout, template_ok, idx, folders, docx, pdf_at, created, processed,
                   fs_entry>>
    /\ UNCHANGED evars

\* lines 196-206: the fields are formatted and the folder name is built; the date
\* arithmetic of lines 201-202 raises OverflowError for the dates 12/29/9999 to
\* 12/31/9999, which DATE_US_PATTERN and max_date_us accept
FormatFields ==
    /\ mpc = "format"
    /\ \E raised \in BOOLEAN : mpc' = IF raised THEN "except" ELSE "exists"
    /\ UNCHANGED <<files, stdout, template_ok, idx, folders, docx, pdf_at, created, processed,
                   skipped, fs_entry>>
    /\ UNCHANGED evars

\* lines 208-211: a file whose output folder exists is skipped
CheckFolder ==
    /\ mpc = "exists"
    /\ IF files[idx].out_dir \in folders
       THEN /\ mpc' = "next"
            /\ skipped' = skipped \cup
                   {[file |-> idx, entry |-> fs_entry, exit |-> <<folders, docx, pdf_at>>]}
       ELSE /\ mpc' = "mkdir"
            /\ skipped' = skipped
    /\ UNCHANGED <<files, stdout, template_ok, idx, folders, docx, pdf_at, created, processed,
                   fs_entry>>
    /\ UNCHANGED evars

\* line 213: os.makedirs(out_dir, exist_ok=True) makes the folder, or raises OSError
\* (name too long, no permission, no space) and makes nothing
MakeDirs ==
    /\ mpc = "mkdir"
    /\ \E raised \in BOOLEAN :
          IF raised
          THEN /\ mpc' = "except"
               /\ folders' = folders
               /\ created' = created
          ELSE /\ mpc' = "load"
               /\ folders' = folders \cup {files[idx].out_dir}
               /\ created' = created \cup {files[idx].out_dir}
    /\ UNCHANGED <<files, stdout, template_ok, idx, docx, pdf_at, processed, skipped, fs_entry>>
    /\ UNCHANGED evars

\* line 215: Document(template_path) loads the template, or raises
LoadTemplate ==
    /\ mpc = "load"
    /\ \E raised \in BOOLEAN : mpc' = IF raised THEN "except" ELSE "replace"
    /\ UNCHANGED <<files, stdout, template_ok, idx, folders, docx, pdf_at, created, processed,
                   skipped, fs_entry>>
    /\ UNCHANGED evars

\* lines 216-228: the dict is built and replace_placeholders runs on the loaded document;
\* it never returns when a value holds its own key and the template holds that key (a
\* CASE_DESCR taken from the PDF that contains {{CASE_DESCR}})
FillTemplate ==
    /\ mpc = "replace"
    /\ \E returns \in BOOLEAN : mpc' = IF returns THEN "save" ELSE "hung"
    /\ UNCHANGED <<files, stdout, template_ok, idx, folders, docx, pdf_at, created, processed,
                   skipped, fs_entry>>
    /\ UNCHANGED evars

\* lines 230-235: the letter is saved unless it exists; doc.save may raise
SaveDoc ==
    /\ mpc = "save"
    /\ IF files[idx].out_dir \in docx
       THEN mpc' = "move" /\ docx' = docx
       ELSE \E raised \in BOOLEAN :
               IF raised
               THEN mpc' = "except" /\ docx' = docx
               ELSE mpc' = "move" /\ docx' = docx \cup {files[idx].out_dir}
    /\ UNCHANGED <<files, stdout, template_ok, idx, folders, pdf_at, created, processed,
                   skipped, fs_entry>>
    /\ UNCHANGED evars

\* lines 237-242: the PDF is moved unless it is there already; shutil.move renames the
\* file, or raises with nothing moved, or copies it and raises before the source is
\* removed, which leaves the PDF in both places
MovePdf ==
    /\ mpc = "move"
    /\ IF files[idx].out_dir \in pdf_at[idx]
       THEN mpc' = "next" /\ pdf_at' = pdf_at
       ELSE \E outcome \in {"moved", "raised", "copied_raised"} :
               /\ mpc' = IF outcome = "moved" THEN "next" ELSE "except"
               /\ pdf_at' = [pdf_at EXCEPT ![idx] =
                                IF outcome = "moved" THEN {files[idx].out_dir}
                                ELSE IF outcome = "raised" THEN @
                                ELSE @ \cup {files[idx].out_dir}]
    /\ UNCHANGED <<files, stdout, template_ok, idx, folders, docx, created, processed,
                   skipped, fs_entry>>
    /\ UNCHANGED evars

\* lines 263-265: main catches the exception and prints the message of line 264, which
\* holds the file name and the text of the exception; when that print raises inside the
\* handler (the encoding, the name or the exception text), main ends with the exception
\* and the files that remain are not entered
Catch ==
    /\ mpc = "except"
    /\ \E text_ok \in BOOLEAN :
          mpc' = IF prints_name(stdout, files[idx]) /\ text_ok THEN "next" ELSE "crashed"
    /\ UNCHANGED <<files, stdout, template_ok, idx, folders, docx, pdf_at, created, processed,
                   skipped, fs_entry>>
    /\ UNCHANGED evars

\* line 260: the for loop takes the next name, or ends
NextFile ==
    /\ mpc = "next"
    /\ IF idx < Len(files)
       THEN mpc' = "open" /\ idx' = idx + 1
       ELSE mpc' = "done" /\ idx' = idx
    /\ UNCHANGED <<files, stdout, template_ok, folders, docx, pdf_at, created, processed,
                   skipped, fs_entry>>
    /\ UNCHANGED evars

NextMain ==
    \/ MainStart \/ OpenPdf \/ CheckFields \/ FormatFields \/ CheckFolder \/ MakeDirs
    \/ LoadTemplate \/ FillTemplate \/ SaveDoc \/ MovePdf \/ Catch \/ NextFile

SpecMain == InitMain /\ [][NextMain]_vars

(***************************************************************************)
(* Vocabulary of the properties.  Occurrences are stated on the text       *)
(* itself, not through find or runs_to_modify.                             *)
(***************************************************************************)
\* key occurs in text at 0-based offset s
Occurs(text, key, s) ==
    /\ s \in 0..(Len(text) - Len(key))
    /\ SubSeq(text, s + 1, s + Len(key)) = key

\* s is the offset of the first occurrence of key in text
FirstAt(text, key, s) ==
    /\ Occurs(text, key, s)
    /\ \A t \in 0..(s - 1) : ~Occurs(text, key, t)

\* text with the Len(key) characters at offset s replaced by value
Substituted(text, key, value, s) ==
    (SubSeq(text, 1, s) \o value) \o SubSeq(text, s + Len(key) + 1, Len(text))

\* the non-empty keys of the dict that occur in text, as dict positions
Occurring(text, ph) ==
    {k \in 1..Len(ph) :
        /\ ph[k].key # <<>>
        /\ \E s \in 0..Len(text) : Occurs(text, ph[k].key, s)}

OffsetOf(text, key) == CHOOSE s \in 0..Len(text) : FirstAt(text, key, s)

\* offset at which run i starts in the paragraph's text
StartOf(rs, i) == Len(full_text(SubSeq(rs, 1, i - 1)))

\* main has ended, by returning or with an exception
MainEnded == mpc \in {"done", "crashed"}

\* a pass has been made; these describe the most recent one
Passed == last.p # 0
OldText == full_text(last.old)
NewRuns == runs[last.p]
LastKey == placeholders[last.k].key
LastValue == placeholders[last.k].value

(***************************************************************************)
(* C1 as claimed.  One successful pass leaves the concatenation of the run texts      *)
(* equal to: the text before the first occurrence of the replaced token,   *)
(* then the replacement value, then the text after that occurrence.        *)
(***************************************************************************)
C1_ConcatIsPrefixValueSuffix ==
    Passed =>
        \E s \in 0..Len(OldText) :
            /\ FirstAt(OldText, LastKey, s)
            /\ full_text(NewRuns) = Substituted(OldText, LastKey, LastValue, s)

(***************************************************************************)
(* C2 as claimed.  Among the tokens that occur in the paragraph, a pass    *)
(* replaces the one whose first occurrence starts leftmost; dict order     *)
(* decides only between tokens that start at the same offset.              *)
(***************************************************************************)
C2_LeftmostTokenReplaced ==
    Passed =>
        LET occ == Occurring(OldText, placeholders)
            off(k) == OffsetOf(OldText, placeholders[k].key)
        IN  /\ last.k \in occ
            /\ \A j \in occ : off(last.k) < off(j) \/ (off(last.k) = off(j) /\ last.k <= j)

(***************************************************************************)
(* C2 as the code has it.  A pass acts on the first token, in dict order,  *)
(* that occurs in the paragraph, at that token's first occurrence: the     *)
(* only runs whose text changes are runs that overlap that occurrence.     *)
(* The start offsets of the other tokens play no part.                     *)
(***************************************************************************)
C2_FirstInDictOrderReplaced ==
    Passed =>
        LET occ == Occurring(OldText, placeholders)
        IN  /\ occ # {}
            /\ last.k = Min(occ)
            /\ \A i \in 1..Len(last.old) :
                  NewRuns[i] # last.old[i] =>
                      /\ StartOf(last.old, i) < OffsetOf(OldText, LastKey) + Len(LastKey)
                      /\ OffsetOf(OldText, LastKey) < StartOf(last.old, i) + Len(last.old[i])

\* two tokens occurred, the later-starting one came first in the dict and was replaced
C2_Witness ==
    /\ Passed
    /\ last.k = 1
    /\ Cardinality(Occurring(OldText, placeholders)) = 2
    /\ OffsetOf(OldText, placeholders[2].key) < OffsetOf(OldText, placeholders[1].key)

(***************************************************************************)
(* C3.  When replace_placeholders has returned, no paragraph of the tree   *)
(* (body, cells at any depth, headers, footers) contains a non-empty key   *)
(* of the dict.                                                            *)
(***************************************************************************)
C3_NoTokenLeft ==
    pc = "returned" =>
        \A p \in DOMAIN runs : Occurring(full_text(runs[p]), placeholders) = {}

\* the call returned on the nested template after replacing a token in the body, in
\* the cell of the table inside a cell, in the header and in the footer's table
C3_Witness ==
    /\ pc = "returned"
    /\ doc = NestedDoc
    /\ \A p \in DOMAIN runs :
          /\ Occurring(full_text(orig[p]), placeholders) # {}
          /\ passes[p] >= 1

(***************************************************************************)
(* C6.  Once a call of replace_placeholders has returned, a further call   *)
(* with the same dict changes no run text anywhere in the tree.            *)
(***************************************************************************)
C6_SecondCallChangesNothing == [][calls >= 1 => runs' = runs]_vars

\* a second call has run to its end on a tree in which the first call replaced tokens
C6_Witness ==
    /\ pc = "returned"
    /\ calls = 2
    /\ doc = NestedDoc
    /\ \A p \in DOMAIN runs : passes[p] >= 1 /\ runs[p] # orig[p]

(***************************************************************************)
(* C4 and C5 speak of dicts whose values contain no key, and of the        *)
(* occurrences of keys in the text loaded from the template.               *)
(***************************************************************************)
\* no value of the dict contains a key of the dict (so no key is empty)
NonRecursive(ph) ==
    \A i \in 1..Len(ph), j \in 1..Len(ph) :
        \A s \in 0..Len(ph[i].value) : ~Occurs(ph[i].value, ph[j].key, s)

\* every occurrence of every key in text, as <<dict position, offset>>
Occurrences(text, ph) ==
    {o \in (1..Len(ph)) \X (0..Len(text)) : Occurs(text, ph[o[1]].key, o[2])}

\* no two occurrences share a character
NonOverlapping(text, ph) ==
    \A o1 \in Occurrences(text, ph), o2 \in Occurrences(text, ph) :
        o1 # o2 =>
            \/ o1[2] + Len(ph[o1[1]].key) <= o2[2]
            \/ o2[2] + Len(ph[o2[1]].key) <= o1[2]

(***************************************************************************)
(* C4 as claimed.  With non-overlapping occurrences and values that        *)
(* contain no key, the loop of _replace_in_paragraph makes exactly one     *)
(* successful pass per occurrence of a token in the paragraph.             *)
(***************************************************************************)
C4_OnePassPerOccurrence ==
    (pc = "returned" /\ calls = 1) =>
        \A p \in DOMAIN runs :
            (/\ NonRecursive(placeholders)
             /\ NonOverlapping(full_text(orig[p]), placeholders))
                => passes[p] = Cardinality(Occurrences(full_text(orig[p]), placeholders))

(***************************************************************************)
(* C5.  If no value of the dict contains a key of the dict, the loop of    *)
(* _replace_in_paragraph terminates on every paragraph, however its text   *)
(* is cut into runs, so replace_placeholders returns on every tree.        *)
(***************************************************************************)
C5_LoopTerminates ==
    NonRecursive(placeholders) => <>(pc = "returned")

\* the call has returned on the nested template, whose paragraphs (body, cells, header,
\* footer) are all cut into three runs, and in each of them the loop went round more
\* than once before it ended
C5_Witness ==
    /\ pc = "returned"
    /\ NonRecursive(placeholders)
    /\ doc = NestedDoc
    /\ \A p \in DOMAIN runs : Len(orig[p]) = 3 /\ passes[p] >= 2

(***************************************************************************)
(* C7.  A pass changes no text but that of runs whose offset range         *)
(* overlaps the replaced occurrence: the tree, the number and order of     *)
(* runs, every other run and every other paragraph stay as they were; and  *)
(* when no token occurs in the paragraph nothing is written and nothing is *)
(* reported as replaced.                                                   *)
(***************************************************************************)
C7_Frame ==
    /\ doc' = doc
    /\ DOMAIN runs' = DOMAIN runs
    /\ \A p \in DOMAIN runs :
          /\ Len(runs'[p]) = Len(runs[p])
          /\ \A i \in 1..Len(runs[p]) :
                runs'[p][i] # runs[p][i] =>
                    /\ pc = "running" /\ todo # <<>> /\ p = Head(todo)
                    /\ last'.p = p
                    /\ last'.k \in Occurring(full_text(runs[p]), placeholders)
                    /\ LET key == placeholders[last'.k].key
                           s == OffsetOf(full_text(runs[p]), key)
                       IN  /\ StartOf(runs[p], i) < s + Len(key)
                           /\ s < StartOf(runs[p], i) + Len(runs[p][i])
    /\ (/\ pc = "running" /\ todo # <<>>
        /\ Occurring(full_text(runs[Head(todo)]), placeholders) = {})
          => (runs' = runs /\ passes' = passes /\ last' = last)

C7_OnlyOverlappingRunsChange == [][C7_Frame]_vars

\* a token that lay wholly inside the second of three runs has been replaced: the
\* first and third run are what they were
C7_Witness ==
    /\ Passed
    /\ Len(last.old) = 3
    /\ last.old[2] = LastKey
    /\ last.old[1] # <<>>
    /\ NewRuns[1] = last.old[1]
    /\ NewRuns[2] # last.old[2]
    /\ NewRuns[3] = last.old[3]

(***************************************************************************)
(* C8 as claimed.  After a pass on an occurrence that starts in run i and  *)
(* ends in run j: if i = j the run holds prefix + value + suffix;          *)
(* otherwise run i holds prefix + value, every run strictly between is     *)
(* empty and run j holds suffix, where prefix is the old text of run i     *)
(* before the occurrence and suffix the old text of run j after it.        *)
(***************************************************************************)
C8_AffectedRunsRewritten ==
    Passed =>
        LET old == last.old
            s == OffsetOf(OldText, LastKey)
            e == s + Len(LastKey)
            i == CHOOSE n \in 1..Len(old) :
                     StartOf(old, n) <= s /\ s < StartOf(old, n) + Len(old[n])
            j == CHOOSE n \in 1..Len(old) :
                     StartOf(old, n) < e /\ e <= StartOf(old, n) + Len(old[n])
            prefix == SubSeq(old[i], 1, s - StartOf(old, i))
            suffix == SubSeq(old[j], e - StartOf(old, j) + 1, Len(old[j]))
        IN  IF i = j
            THEN NewRuns[i] = (prefix \o LastValue) \o suffix
            ELSE /\ NewRuns[i] = prefix \o LastValue
                 /\ \A m \in (i + 1)..(j - 1) : NewRuns[m] = <<>>
                 /\ NewRuns[j] = suffix

(***************************************************************************)
(* C9 as claimed.  A file that is skipped (a required field is missing, or *)
(* its output folder exists) leaves the file system as process_file found  *)
(* it; and whatever is skipped or raised, every file of the batch is       *)
(* processed exactly once.                                                 *)
(***************************************************************************)
C9_SkipsChangeNothingAndBatchGoesOn ==
    /\ \A r \in skipped : r.exit = r.entry
    /\ \A f \in DOMAIN files : processed[f] <= 1
    /\ (MainEnded /\ template_ok) => \A f \in DOMAIN files : processed[f] = 1

(***************************************************************************)
(* C10 as claimed.  After a run of main every output folder the script     *)
(* created holds both the generated letter and the moved source PDF.       *)
(***************************************************************************)
C10_CreatedFoldersAreComplete ==
    MainEnded =>
        \A d \in created :
            /\ d \in docx
            /\ \E f \in DOMAIN files : pdf_at[f] = {d}

====
